---- MODULE Spec2Model ----
(***************************************************************************)
(* Model of sl_list::handler<T> (singly_linked_list.h): an intrusive       *)
(* singly linked list over caller-owned nodes.  A node is an address in    *)
(* 1..MaxNodes, the null pointer is 0.  Every public method is one action; *)
(* the methods themselves are operators computed the way the code does,    *)
(* loops included.                                                         *)
(***************************************************************************)
EXTENDS Integers, Sequences, FiniteSets, TLC

\* ------------------------------------------------------------------ bounds
MaxNodes == 3
MaxPayload == 1

\* nullptr
NULL == 0

Nodes == 1..MaxNodes
Ptrs == Nodes \cup {NULL}
Payloads == 0..MaxPayload

\* A loop that runs longer than this has revisited a node with nothing
\* changed in between, so it would run forever.
Fuel == MaxNodes + 2

VARIABLES
    _head,        \* handler::_head
    next_node,    \* node::next_node of every node
    data,         \* node::data of every node
    call,         \* the last call: method, argument, result
    diag,         \* severities handed to INFO/WARN/ERROR by the last call
    pre_head,     \* _head when the last call started
    pre_next,     \* next_node when the last call started
    pre_data,     \* data when the last call started
    aseq,         \* the abstract sequence: appended at the end, removed on success
    unlinked_from,\* for a node outside the list: where it was removed from
    only_appends  \* no remove has been called yet

vars == << _head, next_node, data, call, diag, pre_head, pre_next, pre_data,
           aseq, unlinked_from, only_appends >>

\* ------------------------------------------------------------ the methods

\* handler::next
next(nn, current_pos) ==
    IF current_pos = NULL THEN current_pos ELSE nn[current_pos]

\* handler::head
head == _head

\* find_loop as it would be if the loop ended on the last node without
\* comparing it:  while (next(seek_node) != nullptr) { ... }
RECURSIVE find_loop_stops_on_last(_, _, _)
find_loop_stops_on_last(seek_node, node, fuel) ==
    IF fuel = 0 THEN [hung |-> TRUE, res |-> NULL, steps |-> 0]
    ELSE IF next(next_node, seek_node) = NULL
    THEN [hung |-> FALSE, res |-> seek_node, steps |-> 0]
    ELSE IF seek_node = node THEN [hung |-> FALSE, res |-> seek_node, steps |-> 0]
    ELSE LET r == find_loop_stops_on_last(next(next_node, seek_node), node, fuel - 1)
         IN  [r EXCEPT !.steps = @ + 1]

\* the while loop of handler::find
RECURSIVE find_loop(_, _, _)
find_loop(seek_node, node, fuel) ==
    IF fuel = 0 THEN [hung |-> TRUE, res |-> NULL, steps |-> 0]
    ELSE IF seek_node = NULL THEN [hung |-> FALSE, res |-> seek_node, steps |-> 0]
    ELSE IF seek_node = node THEN [hung |-> FALSE, res |-> seek_node, steps |-> 0]
    ELSE LET r == find_loop(next(next_node, seek_node), node, fuel - 1)
         IN  [r EXCEPT !.steps = @ + 1]

\* handler::find
find(node) ==
    LET seek_node == _head
    IN  IF seek_node = node
        THEN [hung |-> FALSE, res |-> _head, steps |-> 0]
        ELSE find_loop(seek_node, node, Fuel)

\* clean_next_ptr as it would be if it left the pointer alone
clean_next_ptr_keeps(nn, node) == nn

\* handler::clean_next_ptr
clean_next_ptr(nn, node) ==
    IF node = NULL THEN nn ELSE [nn EXCEPT ![node] = NULL]

\* find_preceding_loop as it would be if it stopped on the last node instead
\* of stepping past it:
\*   while (next(seek_head) != target_node && next(seek_head)) seek_head = next(seek_head);
RECURSIVE find_preceding_loop_stops_on_last(_, _, _)
find_preceding_loop_stops_on_last(seek_head, target_node, fuel) ==
    IF fuel = 0 THEN [hung |-> TRUE, res |-> NULL, steps |-> 0]
    ELSE IF next(next_node, seek_head) = target_node
    THEN [hung |-> FALSE, res |-> seek_head, steps |-> 0]
    ELSE LET nxt == next(next_node, seek_head)
         IN  IF nxt = NULL
             THEN [hung |-> FALSE, res |-> seek_head, steps |-> 1]
             ELSE LET r == find_preceding_loop_stops_on_last(nxt, target_node, fuel - 1)
                  IN  [r EXCEPT !.steps = @ + 1]

\* find_preceding_loop as it would be if it handed back the node it looked
\* for instead of the one before it
RECURSIVE find_preceding_loop_returns_target(_, _, _)
find_preceding_loop_returns_target(seek_head, target_node, fuel) ==
    IF fuel = 0 THEN [hung |-> TRUE, res |-> NULL, steps |-> 0]
    ELSE IF next(next_node, seek_head) = target_node
    THEN [hung |-> FALSE, res |-> next(next_node, seek_head), steps |-> 0]
    ELSE LET nxt == next(next_node, seek_head)
         IN  IF nxt = NULL
             THEN [hung |-> FALSE, res |-> nxt, steps |-> 1]
             ELSE LET r == find_preceding_loop_returns_target(nxt, target_node, fuel - 1)
                  IN  [r EXCEPT !.steps = @ + 1]

\* find_preceding_loop as it would be without  if (seek_head == nullptr) break;
RECURSIVE find_preceding_loop_no_break(_, _, _)
find_preceding_loop_no_break(seek_head, target_node, fuel) ==
    IF fuel = 0 THEN [hung |-> TRUE, res |-> NULL, steps |-> 0]
    ELSE IF next(next_node, seek_head) = target_node
    THEN [hung |-> FALSE, res |-> seek_head, steps |-> 0]
    ELSE LET r == find_preceding_loop_no_break(next(next_node, seek_head),
                                               target_node, fuel - 1)
         IN  [r EXCEPT !.steps = @ + 1]

\* the while loop of handler::find_preceding_node
RECURSIVE find_preceding_loop(_, _, _)
find_preceding_loop(seek_head, target_node, fuel) ==
    IF fuel = 0 THEN [hung |-> TRUE, res |-> NULL, steps |-> 0]
    ELSE IF next(next_node, seek_head) = target_node
    THEN [hung |-> FALSE, res |-> seek_head, steps |-> 0]
    ELSE LET nxt == next(next_node, seek_head)
         IN  IF nxt = NULL
             THEN [hung |-> FALSE, res |-> nxt, steps |-> 1]
             ELSE LET r == find_preceding_loop(nxt, target_node, fuel - 1)
                  IN  [r EXCEPT !.steps = @ + 1]

\* handler::find_preceding_node
find_preceding_node(target_node) ==
    LET seek_head == _head
    IN  IF seek_head = NULL
        THEN [hung |-> FALSE, res |-> NULL, steps |-> 0, diag |-> <<"WARN">>]
        ELSE IF seek_head = target_node
        THEN [hung |-> FALSE, res |-> seek_head, steps |-> 0, diag |-> <<>>]
        ELSE LET r == find_preceding_loop(seek_head, target_node, Fuel)
             IN  [hung |-> r.hung, res |-> r.res, steps |-> r.steps, diag |-> <<>>]

\* handler::tail
tail == find_preceding_node(NULL)

\* append as it would be if it linked the new node behind the head instead of
\* behind the tail
append_behind_head(new_node) ==
    IF _head = NULL
    THEN [hung |-> FALSE, head |-> new_node, next_node |-> next_node,
          steps |-> 0, diag |-> <<>>]
    ELSE [hung |-> FALSE, head |-> _head,
          next_node |-> [next_node EXCEPT ![_head] = new_node],
          steps |-> 0, diag |-> <<>>]

\* append as it would be if it linked the new node in front of the head
append_in_front(new_node) ==
    [hung |-> FALSE, head |-> new_node,
     next_node |-> [next_node EXCEPT ![new_node] = _head],
     steps |-> 0, diag |-> <<>>]

\* append as it would be with a membership check in front:
\*   if (find(new_node) != nullptr) return;
append_checks_membership(new_node) ==
    IF new_node # NULL /\ find(new_node).res = new_node
    THEN [hung |-> FALSE, head |-> _head, next_node |-> next_node,
          steps |-> 0, diag |-> <<>>]
    ELSE IF _head = NULL
    THEN [hung |-> FALSE, head |-> new_node, next_node |-> next_node,
          steps |-> 0, diag |-> <<>>]
    ELSE LET ptr == tail
         IN  IF ptr.hung
             THEN [hung |-> TRUE, head |-> _head, next_node |-> next_node,
                   steps |-> ptr.steps, diag |-> ptr.diag]
             ELSE [hung |-> FALSE, head |-> _head,
                   next_node |-> [next_node EXCEPT ![ptr.res] = new_node],
                   steps |-> ptr.steps, diag |-> ptr.diag]

\* handler::append; the result is the list after the call
append(new_node) ==
    IF _head = NULL
    THEN [hung |-> FALSE, head |-> new_node, next_node |-> next_node,
          steps |-> 0, diag |-> <<>>]
    ELSE LET ptr == tail
         IN  IF ptr.hung
             THEN [hung |-> TRUE, head |-> _head, next_node |-> next_node,
                   steps |-> ptr.steps, diag |-> ptr.diag]
             ELSE [hung |-> FALSE, head |-> _head,
                   next_node |-> [next_node EXCEPT ![ptr.res] = new_node],
                   steps |-> ptr.steps, diag |-> ptr.diag]

\* remove as it would be if the head branch cleared node->next_node before
\* reading it
remove_clears_first(node) ==
    IF node = _head
    THEN [hung |-> FALSE, ret |-> 0,
          head |-> next(clean_next_ptr(next_node, node), node),
          next_node |-> clean_next_ptr(next_node, node),
          steps |-> 0, diag |-> <<>>]
    ELSE LET preceding_node == find_preceding_node(node)
         IN  IF preceding_node.hung
             THEN [hung |-> TRUE, ret |-> 0, head |-> _head, next_node |-> next_node,
                   steps |-> preceding_node.steps, diag |-> preceding_node.diag]
             ELSE IF preceding_node.res = NULL
             THEN [hung |-> FALSE, ret |-> 1, head |-> _head, next_node |-> next_node,
                   steps |-> preceding_node.steps,
                   diag |-> preceding_node.diag \o <<"ERROR">>]
             ELSE LET p == preceding_node.res
                      spliced == [next_node EXCEPT
                                    ![p] = next(next_node, next_node[p])]
                  IN  [hung |-> FALSE, ret |-> 0, head |-> _head,
                       next_node |-> clean_next_ptr(spliced, node),
                       steps |-> preceding_node.steps,
                       diag |-> preceding_node.diag \o <<"INFO">>]

\* remove as it would be if the splice were done after node->next_node was
\* cleared, reading the successor from the removed node
remove_splices_late(node) ==
    IF node = _head
    THEN [hung |-> FALSE, ret |-> 0, head |-> next(next_node, node),
          next_node |-> clean_next_ptr(next_node, node),
          steps |-> 0, diag |-> <<>>]
    ELSE LET preceding_node == find_preceding_node(node)
         IN  IF preceding_node.hung
             THEN [hung |-> TRUE, ret |-> 0, head |-> _head, next_node |-> next_node,
                   steps |-> preceding_node.steps, diag |-> preceding_node.diag]
             ELSE IF preceding_node.res = NULL
             THEN [hung |-> FALSE, ret |-> 1, head |-> _head, next_node |-> next_node,
                   steps |-> preceding_node.steps,
                   diag |-> preceding_node.diag \o <<"ERROR">>]
             ELSE LET p == preceding_node.res
                      cleaned == clean_next_ptr(next_node, node)
                  IN  [hung |-> FALSE, ret |-> 0, head |-> _head,
                       next_node |-> [cleaned EXCEPT ![p] = next(cleaned, node)],
                       steps |-> preceding_node.steps,
                       diag |-> preceding_node.diag \o <<"INFO">>]

\* remove as it would be if the head branch cleaned the new head instead of
\* the removed node:  _head = next(node); clean_next_ptr(_head);
remove_cleans_new_head(node) ==
    IF node = _head
    THEN [hung |-> FALSE, ret |-> 0, head |-> next(next_node, node),
          next_node |-> clean_next_ptr(next_node, next(next_node, node)),
          steps |-> 0, diag |-> <<>>]
    ELSE LET preceding_node == find_preceding_node(node)
         IN  IF preceding_node.hung
             THEN [hung |-> TRUE, ret |-> 0, head |-> _head, next_node |-> next_node,
                   steps |-> preceding_node.steps, diag |-> preceding_node.diag]
             ELSE IF preceding_node.res = NULL
             THEN [hung |-> FALSE, ret |-> 1, head |-> _head, next_node |-> next_node,
                   steps |-> preceding_node.steps,
                   diag |-> preceding_node.diag \o <<"ERROR">>]
             ELSE LET p == preceding_node.res
                      spliced == [next_node EXCEPT
                                    ![p] = next(next_node, next_node[p])]
                  IN  [hung |-> FALSE, ret |-> 0, head |-> _head,
                       next_node |-> clean_next_ptr(spliced, node),
                       steps |-> preceding_node.steps,
                       diag |-> preceding_node.diag \o <<"INFO">>]

\* remove as it would be if it refused a null argument up front:
\*   if (node == nullptr) return 1;
remove_rejects_null(node) ==
    IF node = NULL
    THEN [hung |-> FALSE, ret |-> 1, head |-> _head, next_node |-> next_node,
          steps |-> 0, diag |-> <<>>]
    ELSE IF node = _head
    THEN [hung |-> FALSE, ret |-> 0, head |-> next(next_node, node),
          next_node |-> clean_next_ptr(next_node, node),
          steps |-> 0, diag |-> <<>>]
    ELSE LET preceding_node == find_preceding_node(node)
         IN  IF preceding_node.hung
             THEN [hung |-> TRUE, ret |-> 0, head |-> _head, next_node |-> next_node,
                   steps |-> preceding_node.steps, diag |-> preceding_node.diag]
             ELSE IF preceding_node.res = NULL
             THEN [hung |-> FALSE, ret |-> 1, head |-> _head, next_node |-> next_node,
                   steps |-> preceding_node.steps,
                   diag |-> preceding_node.diag \o <<"ERROR">>]
             ELSE LET p == preceding_node.res
                      spliced == [next_node EXCEPT
                                    ![p] = next(next_node, next_node[p])]
                  IN  [hung |-> FALSE, ret |-> 0, head |-> _head,
                       next_node |-> clean_next_ptr(spliced, node),
                       steps |-> preceding_node.steps,
                       diag |-> preceding_node.diag \o <<"INFO">>]

\* handler::remove; ret is the value of the return statement (0 or 1)
remove(node) ==
    IF node = _head
    THEN [hung |-> FALSE, ret |-> 0, head |-> next(next_node, node),
          next_node |-> clean_next_ptr(next_node, node),
          steps |-> 0, diag |-> <<>>]
    ELSE LET preceding_node == find_preceding_node(node)
         IN  IF preceding_node.hung
             THEN [hung |-> TRUE, ret |-> 0, head |-> _head, next_node |-> next_node,
                   steps |-> preceding_node.steps, diag |-> preceding_node.diag]
             ELSE IF preceding_node.res = NULL
             THEN [hung |-> FALSE, ret |-> 1, head |-> _head, next_node |-> next_node,
                   steps |-> preceding_node.steps,
                   diag |-> preceding_node.diag \o <<"ERROR">>]
             ELSE LET p == preceding_node.res
                      spliced == [next_node EXCEPT
                                    ![p] = next(next_node, next_node[p])]
                  IN  [hung |-> FALSE, ret |-> 0, head |-> _head,
                       next_node |-> clean_next_ptr(spliced, node),
                       steps |-> preceding_node.steps,
                       diag |-> preceding_node.diag \o <<"INFO">>]

\* ------------------------------------------------------- reading the heap

\* The nodes met by following nn from p, at most k of them.
RECURSIVE Walk(_, _, _)
Walk(nn, p, k) ==
    IF p = NULL \/ k = 0 THEN <<>> ELSE <<p>> \o Walk(nn, nn[p], k - 1)

Range(s) == {s[i] : i \in 1..Len(s)}

\* Following nn from h ends at a node whose next is none, no node met twice.
IsChain(h, nn) ==
    LET w == Walk(nn, h, MaxNodes + 1)
    IN  /\ Len(w) <= MaxNodes
        /\ Cardinality(Range(w)) = Len(w)

ChainOf(h, nn) == Walk(nn, h, MaxNodes + 1)

Chain == ChainOf(_head, next_node)
PreChain == ChainOf(pre_head, pre_next)

Reachable(n) == n \in Range(Chain)

\* s with every occurrence of n deleted
Without(s, n) == SelectSeq(s, LAMBDA x : x # n)

\* where n sits in the chain s
PositionOf(s, n) ==
    IF Len(s) = 1 THEN "only"
    ELSE IF s[1] = n THEN "head"
    ELSE IF s[Len(s)] = n THEN "tail"
    ELSE "middle"

\* ------------------------------------------------------------------- Init

Init ==
    /\ _head = NULL
    /\ next_node = [n \in Nodes |-> NULL]
    /\ data \in [Nodes -> Payloads]
    /\ call = [op |-> "new", arg |-> NULL, ret |-> NULL, hung |-> FALSE,
               steps |-> 0, relinked |-> "never"]
    /\ diag = <<>>
    /\ pre_head = NULL
    /\ pre_next = [n \in Nodes |-> NULL]
    /\ pre_data = data
    /\ aseq = <<>>
    /\ unlinked_from = [n \in Nodes |-> "never"]
    /\ only_appends = TRUE

\* a call that never returns stops the (single-threaded) caller
Running == ~call.hung

Snapshot ==
    /\ pre_head' = _head
    /\ pre_next' = next_node
    /\ pre_data' = data

\* ---------------------------------------------------------------- actions

\* h.head()
CallHead ==
    /\ Running
    /\ call' = [op |-> "head", arg |-> NULL, ret |-> head, hung |-> FALSE,
                steps |-> 0, relinked |-> "never"]
    /\ diag' = <<>>
    /\ Snapshot
    /\ UNCHANGED << _head, next_node, data, aseq, unlinked_from, only_appends >>

\* h.next(x)
CallNext(x) ==
    /\ Running
    /\ call' = [op |-> "next", arg |-> x, ret |-> next(next_node, x),
                hung |-> FALSE, steps |-> 0, relinked |-> "never"]
    /\ diag' = <<>>
    /\ Snapshot
    /\ UNCHANGED << _head, next_node, data, aseq, unlinked_from, only_appends >>

\* h.tail()
CallTail ==
    /\ Running
    /\ LET r == tail
       IN  /\ call' = [op |-> "tail", arg |-> NULL, ret |-> r.res, hung |-> r.hung,
                       steps |-> r.steps, relinked |-> "never"]
           /\ diag' = r.diag
    /\ Snapshot
    /\ UNCHANGED << _head, next_node, data, aseq, unlinked_from, only_appends >>

\* h.find(x) as it would be if find walked the list with _head itself
CallFind_moves_head(x) ==
    /\ Running
    /\ LET r == find(x)
       IN  /\ call' = [op |-> "find", arg |-> x, ret |-> r.res, hung |-> r.hung,
                       steps |-> r.steps, relinked |-> "never"]
           /\ _head' = r.res
    /\ diag' = <<>>
    /\ Snapshot
    /\ UNCHANGED << next_node, data, aseq, unlinked_from, only_appends >>

\* h.find(x)
CallFind(x) ==
    /\ Running
    /\ LET r == find(x)
       IN  call' = [op |-> "find", arg |-> x, ret |-> r.res, hung |-> r.hung,
                    steps |-> r.steps, relinked |-> "never"]
    /\ diag' = <<>>
    /\ Snapshot
    /\ UNCHANGED << _head, next_node, data, aseq, unlinked_from, only_appends >>

\* h.append(n), n a node that is not in the list.  The caller does not look at
\* n.next: that it is none for every such node is the handler's doing.
CallAppend(n) ==
    /\ Running
    /\ ~Reachable(n)
    /\ LET r == append(n)
       IN  /\ _head' = r.head
           /\ next_node' = r.next_node
           /\ call' = [op |-> "append", arg |-> n, ret |-> NULL, hung |-> r.hung,
                       steps |-> r.steps, relinked |-> unlinked_from[n]]
           /\ diag' = r.diag
    /\ Snapshot
    /\ aseq' = Append(aseq, n)
    /\ unlinked_from' = [unlinked_from EXCEPT ![n] = "never"]
    /\ UNCHANGED << data, only_appends >>

\* h.remove(x), x any pointer
CallRemove(x) ==
    /\ Running
    /\ LET r == remove(x)
       IN  /\ _head' = r.head
           /\ next_node' = r.next_node
           /\ call' = [op |-> "remove", arg |-> x, ret |-> r.ret, hung |-> r.hung,
                       steps |-> r.steps, relinked |-> "never"]
           /\ diag' = r.diag
           /\ aseq' = IF r.ret = 0 /\ ~r.hung THEN Without(aseq, x) ELSE aseq
           /\ unlinked_from' =
                IF r.ret = 0 /\ ~r.hung /\ x \in Range(aseq)
                THEN [unlinked_from EXCEPT ![x] = PositionOf(aseq, x)]
                ELSE unlinked_from
    /\ Snapshot
    /\ only_appends' = FALSE
    /\ UNCHANGED data

Next ==
    \/ CallHead
    \/ CallTail
    \/ \E x \in Ptrs : CallNext(x)
    \/ \E x \in Ptrs : CallFind(x)
    \/ \E n \in Nodes : CallAppend(n)
    \/ \E x \in Ptrs : CallRemove(x)

Spec == Init /\ [][Next]_vars

\* ------------------------------------------- any list that is a chain

\* Any head and any next pointers such that the walk from head is a chain;
\* nodes outside the list may point anywhere (node::node takes a next pointer).
\* No node has a payload: no method reads node::data.
InitChains ==
    /\ _head \in Ptrs
    /\ next_node \in [Nodes -> Ptrs]
    /\ IsChain(_head, next_node)
    /\ data = [n \in Nodes |-> NULL]
    /\ call = [op |-> "new", arg |-> NULL, ret |-> NULL, hung |-> FALSE,
               steps |-> 0, relinked |-> "never"]
    /\ diag = <<>>
    /\ pre_head = _head
    /\ pre_next = next_node
    /\ pre_data = data
    /\ aseq = ChainOf(_head, next_node)
    /\ unlinked_from = [n \in Nodes |-> "never"]
    /\ only_appends = FALSE

\* h.append(n), n not in the list and with no successor, as append expects
CallAppendUnlinked(n) ==
    /\ next_node[n] = NULL
    /\ CallAppend(n)

NextChains ==
    \/ CallTail
    \/ \E x \in Ptrs : CallFind(x)
    \/ \E n \in Nodes : CallAppendUnlinked(n)
    \/ \E x \in Ptrs : CallRemove(x)

SpecChains == InitChains /\ [][NextChains]_vars

\* ------------------------------------------------- append used wrongly

\* h.append(n) with n already in the list, which append does not look for
CallAppendLinked(n) ==
    /\ Running
    /\ Reachable(n)
    /\ LET r == append(n)
       IN  /\ _head' = r.head
           /\ next_node' = r.next_node
           /\ call' = [op |-> "append", arg |-> n, ret |-> NULL, hung |-> r.hung,
                       steps |-> r.steps, relinked |-> "never"]
           /\ diag' = r.diag
    /\ Snapshot
    /\ UNCHANGED << data, aseq, unlinked_from, only_appends >>

\* The caller is followed up to the call that closes the cycle and no
\* further: what later calls do on a cyclic list is not looked at here.
NextMisuse ==
    \/ IsChain(_head, next_node) /\ Next
    \/ IsChain(_head, next_node) /\ \E n \in Nodes : CallAppendLinked(n)

\* a new handler and default-constructed nodes: no payload, no successor
InitDefault ==
    /\ Init
    /\ data = [n \in Nodes |-> NULL]

SpecMisuse == InitDefault /\ [][NextMisuse]_vars

TypeOK ==
    /\ _head \in Ptrs
    /\ next_node \in [Nodes -> Ptrs]
    /\ data \in [Nodes -> Payloads]
    /\ call.ret \in Ptrs \cup {0, 1}

\* ----------------------------------------------------------------- claims

Last(s) == s[Len(s)]

Returned(op) == call.op = op /\ ~call.hung

\* C1: in every state reached by appends of unlinked nodes and by removes,
\* following next from head visits every node of the list exactly once and
\* ends at a node whose next is none; the chain is never cyclic.
C1_ChainInvariant ==
    /\ IsChain(_head, next_node)
    /\ Range(Chain) = Range(aseq)
    /\ Len(Chain) = Len(aseq)
    /\ Chain # <<>> => next_node[Last(Chain)] = NULL

\* a full list built after a node was removed from the middle and appended again
C1_Witness ==
    /\ Returned("append")
    /\ call.relinked = "middle"
    /\ Len(Chain) = MaxNodes
    /\ C1_ChainInvariant

\* C2: find(n) returns n exactly when n is reachable from head, none otherwise
\* (never appended, removed, or the list is empty).
C2_FindIffReachable ==
    \A x \in Ptrs :
        /\ ~find(x).hung
        /\ find(x).res = (IF Reachable(x) THEN x ELSE NULL)

\* find of a removed node on a non-empty list has answered none
C2_Witness ==
    /\ Returned("find")
    /\ call.arg \in Nodes
    /\ unlinked_from[call.arg] # "never"
    /\ Len(Chain) >= 2
    /\ call.ret = NULL

\* C3: while only appends (of distinct fresh nodes) have been made to a new
\* handler, head() is the first node appended and tail() the last one.
C3_HeadFirstTailLast ==
    (only_appends /\ aseq # <<>>) =>
        /\ head = aseq[1]
        /\ ~tail.hung
        /\ tail.res = Last(aseq)

\* the third append in a row has returned
C3_Witness ==
    /\ only_appends
    /\ Returned("append")
    /\ Len(aseq) >= 3
    /\ tail.res = call.arg
    /\ head # call.arg

\* C4: remove(n) of a node that is not reachable from head returns 1 and
\* leaves head and every next relation (so length and order) as they were.
C4_RemoveAbsent ==
    (call.op = "remove" /\ call.arg \in Nodes /\ call.arg \notin Range(PreChain)) =>
        /\ ~call.hung
        /\ call.ret = 1
        /\ _head = pre_head
        /\ next_node = pre_next
        /\ Chain = PreChain

\* remove of an absent node from a list of two or more has returned
C4_Witness ==
    /\ Returned("remove")
    /\ call.arg \in Nodes
    /\ call.arg \notin Range(PreChain)
    /\ Len(PreChain) >= 2
    /\ call.ret = 1

\* C5: remove(n) with n the head returns 0, makes the node that followed n the
\* head (none if n was alone), keeps the others in order, and find(n) is none.
C5_RemoveHead ==
    (call.op = "remove" /\ call.arg \in Nodes /\ call.arg = pre_head) =>
        /\ ~call.hung
        /\ call.ret = 0
        /\ _head = pre_next[call.arg]
        /\ Chain = Tail(PreChain)
        /\ find(call.arg).res = NULL

\* the head of a list of two or more has been removed
C5_Witness ==
    /\ Returned("remove")
    /\ call.arg \in Nodes
    /\ call.arg = pre_head
    /\ Len(PreChain) >= 2
    /\ _head = PreChain[2]

\* C6: remove(n) with n in the list and not the head returns 0, sets the
\* predecessor's next to the node that followed n, leaves head alone, and
\* the chain is the old chain with exactly n deleted.
C6_RemoveInner ==
    (call.op = "remove" /\ call.arg \in Range(PreChain) /\ call.arg # pre_head) =>
        /\ ~call.hung
        /\ call.ret = 0
        /\ _head = pre_head
        /\ \A p \in Range(PreChain) :
              pre_next[p] = call.arg => next_node[p] = pre_next[call.arg]
        /\ Chain = Without(PreChain, call.arg)
        /\ Len(Chain) = Len(PreChain) - 1

\* a middle node has been removed: its predecessor now points at its successor
C6_Witness ==
    /\ Returned("remove")
    /\ Len(PreChain) >= 3
    /\ call.arg = PreChain[2]
    /\ next_node[PreChain[1]] = PreChain[3]

\* C7: after a successful remove(n), n.next is none and n is not reachable;
\* so every node that was appended and is not in the list has next = none.
C7_RemovedIsCleared ==
    /\ (Returned("remove") /\ call.ret = 0 /\ call.arg \in Nodes) =>
          /\ next_node[call.arg] = NULL
          /\ ~Reachable(call.arg)
    /\ \A n \in Nodes :
          (unlinked_from[n] # "never" /\ ~Reachable(n)) => next_node[n] = NULL

\* a node that had a successor has been removed
C7_Witness ==
    /\ Returned("remove")
    /\ call.ret = 0
    /\ call.arg \in Nodes
    /\ pre_next[call.arg] # NULL
    /\ next_node[call.arg] = NULL

\* C8: append(n) of a node that was removed before (from any position) links
\* it cleanly: its next had been cleared, no cycle forms, n is the tail with
\* next = none, and the other nodes keep their order.
C8_RelinkAfterRemove ==
    (call.op = "append" /\ call.relinked # "never") =>
        /\ ~call.hung
        /\ pre_next[call.arg] = NULL
        /\ IsChain(_head, next_node)
        /\ Chain = PreChain \o << call.arg >>
        /\ tail.res = call.arg
        /\ next_node[call.arg] = NULL

\* a node removed from the head of a longer list has been appended again to
\* a non-empty list
C8_Witness ==
    /\ Returned("append")
    /\ call.relinked = "head"
    /\ Len(PreChain) >= 1
    /\ Last(Chain) = call.arg

\* C9: head(), next(x), tail() and find(x) leave head and every next relation
\* unchanged; only append and remove change the list.
C9_QueriesArePure ==
    /\ call.op \in {"head", "next", "tail", "find"} =>
          (_head = pre_head /\ next_node = pre_next)
    /\ (_head # pre_head \/ next_node # pre_next) =>
          call.op \in {"append", "remove"}

\* find has walked a list of two or more to its last node
C9_Witness ==
    /\ Returned("find")
    /\ Len(Chain) >= 2
    /\ call.arg = Last(Chain)
    /\ call.ret = call.arg

\* C10: append(n), n not in the list: on an empty list only head changes (to
\* n); otherwise only the next of the tail changes (to n); the chain after
\* the call is the chain before it followed by n.
C10_AppendFrame ==
    call.op = "append" =>
        /\ ~call.hung
        /\ IF pre_head = NULL
           THEN _head = call.arg /\ next_node = pre_next
           ELSE /\ _head = pre_head
                /\ next_node = [pre_next EXCEPT ![Last(PreChain)] = call.arg]
        /\ data = pre_data
        /\ Chain = PreChain \o << call.arg >>

\* append to a list of two or more has returned
C10_Witness ==
    /\ Returned("append")
    /\ Len(PreChain) >= 2
    /\ next_node[Last(PreChain)] = call.arg
    /\ pre_next[Last(PreChain)] = NULL

\* C11: remove never changes a payload reference; a successful remove changes
\* nothing but head or the predecessor's next, and the removed node's next.
C11_RemoveFrame ==
    call.op = "remove" =>
        /\ data = pre_data
        /\ _head # pre_head => call.arg = pre_head
        /\ \A m \in Nodes :
              next_node[m] # pre_next[m] =>
                  \/ m = call.arg
                  \/ /\ call.arg # pre_head
                     /\ m \in Range(PreChain)
                     /\ pre_next[m] = call.arg

\* a middle node has been removed from a list of three or more
C11_Witness ==
    /\ Returned("remove")
    /\ call.ret = 0
    /\ Len(PreChain) >= 3
    /\ call.arg = PreChain[2]
    /\ next_node[PreChain[3]] = pre_next[PreChain[3]]
    /\ data = pre_data

\* C12: tail() returns none exactly when the list is empty, and otherwise the
\* one node reachable from head whose next is none.
C12_TailIsLast ==
    /\ ~tail.hung
    /\ (tail.res = NULL) <=> (_head = NULL)
    /\ (tail.res = NULL) <=> (aseq = <<>>)
    /\ _head # NULL =>
          /\ Reachable(tail.res)
          /\ next_node[tail.res] = NULL
          /\ \A n \in Range(Chain) : next_node[n] = NULL => n = tail.res

\* the tail has been removed and tail() is now its former predecessor
C12_Witness ==
    /\ Returned("remove")
    /\ Len(PreChain) >= 2
    /\ call.arg = Last(PreChain)
    /\ tail.res = PreChain[Len(PreChain) - 1]

\* the value a bool function hands back for  return v;
AsBool(v) == v # 0

\* the call took the node out of the list
Unlinked ==
    /\ Returned("remove")
    /\ call.arg \in Range(PreChain)
    /\ call.arg \notin Range(Chain)

\* C13: if the node is successfully removed, remove returns true.
C13_RemovedReturnsTrue ==
    Unlinked => AsBool(call.ret) = TRUE

\* C14: every remove that reports success emits INFO, head or not; ERROR is
\* emitted exactly by the removes that report failure.
C14_RemoveDiagnostics ==
    /\ (Returned("remove") /\ call.ret = 0 /\ call.arg \in Nodes) =>
          "INFO" \in Range(diag)
    /\ "ERROR" \in Range(diag) <=> (Returned("remove") /\ call.ret = 1)

\* C15: find, tail, append and remove terminate for every argument, after a
\* number of loop steps bounded by the list length, in every state whose
\* list is a chain.
C15_BoundedTermination ==
    IsChain(_head, next_node) =>
        /\ ~tail.hung /\ tail.steps <= Len(Chain)
        /\ \A x \in Ptrs :
              /\ ~find(x).hung /\ find(x).steps <= Len(Chain)
              /\ ~append(x).hung /\ append(x).steps <= Len(Chain)
              /\ ~remove(x).hung /\ remove(x).steps <= Len(Chain)
        /\ ~call.hung
        /\ call.steps <= Len(PreChain)

\* remove of an absent node has walked a whole list of two or more
C15_Witness ==
    /\ Returned("remove")
    /\ call.ret = 1
    /\ Len(PreChain) >= 2
    /\ call.steps = Len(PreChain)

\* C16: the chain read from head equals the abstract sequence (append adds n
\* at the end, a successful remove deletes n); no call reorders the others.
C16_RefinesSequence ==
    /\ Chain = aseq
    /\ call.op = "append" => Chain = PreChain \o << call.arg >>
    /\ (call.op = "remove" /\ call.ret = 0) => Chain = Without(PreChain, call.arg)
    /\ (call.op = "remove" /\ call.ret = 1) => Chain = PreChain
    /\ call.op \in {"head", "next", "tail", "find"} => Chain = PreChain

\* after appends and a successful remove the list is in insertion order and
\* not in address order
C16_Witness ==
    /\ Returned("remove")
    /\ call.ret = 0
    /\ call.arg \in Range(PreChain)
    /\ Len(Chain) >= 2
    /\ Chain[1] > Chain[2]
    /\ Chain = aseq

\* following nn from n comes back to n
OnCycle(nn, n) == n \in Range(Walk(nn, nn[n], MaxNodes))

\* C17: append(n) of a node already reachable from head is not detected: it
\* returns silently with the tail's next set to n, and the chain is cyclic.
C17_AppendLinkedMakesCycle ==
    (call.op = "append" /\ call.arg \in Range(PreChain)
                        /\ IsChain(pre_head, pre_next)) =>
        /\ ~call.hung
        /\ diag = <<>>
        /\ _head = pre_head
        /\ next_node = [pre_next EXCEPT ![Last(PreChain)] = call.arg]
        /\ OnCycle(next_node, call.arg)
        /\ ~IsChain(_head, next_node)

\* the middle node of a chain of three has been appended again
C17_Witness ==
    /\ Returned("append")
    /\ IsChain(pre_head, pre_next)
    /\ Len(PreChain) >= 3
    /\ call.arg = PreChain[2]
    /\ next_node[Last(PreChain)] = call.arg

\* C18: remove(none) returns 0 and leaves head and every next unchanged: on an
\* empty list by the head branch, on a non-empty one by rewriting the next of
\* the tail (which find_preceding_node(none) returns) to none.
C18_RemoveNull ==
    /\ (call.op = "remove" /\ call.arg = NULL) =>
          /\ ~call.hung
          /\ call.ret = 0
          /\ _head = pre_head
          /\ next_node = pre_next
          /\ diag = (IF pre_head = NULL THEN <<>> ELSE <<"INFO">>)
    /\ remove(NULL).ret = 0
    /\ _head # NULL =>
          /\ find_preceding_node(NULL).res = Last(Chain)
          /\ next(next_node, next_node[Last(Chain)]) = NULL

\* remove(none) has returned on a list of two or more
C18_Witness ==
    /\ Returned("remove")
    /\ call.arg = NULL
    /\ Len(PreChain) >= 2
    /\ call.ret = 0
    /\ Chain = PreChain

\* C19: find_preceding_node(t), t non-null, the list a chain: none (with WARN)
\* on an empty list; the head when t is the head; the one chain node whose
\* next is t when t is further down; none when t is absent.  The result is
\* t only in the head case.
C19_FindPrecedingNode ==
    IsChain(_head, next_node) =>
        \A t \in Nodes :
            LET r == find_preceding_node(t)
            IN  /\ ~r.hung
                /\ ("WARN" \in Range(r.diag)) <=> (_head = NULL)
                /\ _head = NULL => r.res = NULL
                /\ t = _head => r.res = _head
                /\ (Reachable(t) /\ t # _head) =>
                      /\ Reachable(r.res)
                      /\ next_node[r.res] = t
                      /\ \A p \in Range(Chain) : next_node[p] = t => p = r.res
                /\ ~Reachable(t) => r.res = NULL
                /\ (r.res = t) <=> (t = _head)

\* remove found the predecessor on the chain although a node outside the
\* list pointed at the target too
C19_Witness ==
    /\ Returned("remove")
    /\ call.ret = 0
    /\ Len(PreChain) >= 2
    /\ call.arg = PreChain[2]
    /\ \E m \in Nodes : m \notin Range(PreChain) /\ pre_next[m] = call.arg
    /\ next_node[PreChain[1]] = pre_next[call.arg]

====
